---- MODULE Spec2Model ----
(***************************************************************************)
(* State-machine model of backend.py (Hey Sera API): the two JSON          *)
(* collections on disk, the request handlers that load, mutate and save    *)
(* them, and the prompt built for the remote model.                        *)
(*                                                                         *)
(* Handlers are coroutines on one event loop: a handler runs without       *)
(* interruption between two awaits.  chat_endpoint and upload_document     *)
(* suspend once, at the awaited model call inside generate_response, so    *)
(* each is two atomic steps; every other handler is one step.              *)
(*                                                                         *)
(* Text is a sequence of tokens: a token is one character, or one fixed    *)
(* literal of the source (a section header, the system prompt, the         *)
(* apology).  Wall-clock fields (created_at, last_updated, uploaded_at,    *)
(* timestamp) are left out of the records.                                 *)
(*                                                                         *)
(* A file is represented by the value json.load reads from it; a save      *)
(* computes that value from the JSON value json.dump writes.               *)
(***************************************************************************)
EXTENDS Integers, Sequences, FiniteSets, TLC

VARIABLES
    chat_sessions_file,       \* memory/chat_sessions.json, as json.load reads it
    uploaded_documents_file,  \* memory/uploaded_documents.json, as json.load reads it
    unreadable,               \* the files a failed write left truncated (json.load raises)
    uuids,                    \* how many ids uuid.uuid4() has produced so far
    inflight,                 \* per slot: the coroutine suspended at the model call
    resp,                     \* the last request completed and the response it got
    started,                  \* number of requests received so far
    faults,                   \* write failures the environment may still cause
    returned,                 \* the success responses clients got for chat, upload, delete
    backups                   \* the copies in memory/backups

vars == <<chat_sessions_file, uploaded_documents_file, unreadable, uuids,
          inflight, resp, started, faults, returned, backups>>

----------------------------------------------------------------------------
(* Bounds of the model *)

MaxRequests == 2
MaxFaults == 1

Slots == {"c1", "c2"}

(* Program constants *)

HistoryWindow == 10
PreviewLength == 100
MaxSizeMiB == 10
max_size == MaxSizeMiB * 1024 * 1024

----------------------------------------------------------------------------
(* Text *)

\* the characters str.strip() removes; "nbsp" is U+00A0
Whitespace == {" ", "\n", "\t", "nbsp"}

RECURSIVE lstrip(_)
lstrip(t) == IF t # <<>> /\ Head(t) \in Whitespace THEN lstrip(Tail(t)) ELSE t

RECURSIVE rstrip(_)
rstrip(t) ==
    IF t # <<>> /\ t[Len(t)] \in Whitespace THEN rstrip(SubSeq(t, 1, Len(t) - 1)) ELSE t

\* str.strip()
strip(t) == rstrip(lstrip(t))

\* sep.join(parts)
RECURSIVE join(_, _)
join(sep, parts) ==
    IF parts = <<>> THEN <<>>
    ELSE IF Len(parts) = 1 THEN parts[1]
    ELSE parts[1] \o sep \o join(sep, Tail(parts))

\* seq[-n:]
LastN(seq, n) == SubSeq(seq, IF Len(seq) > n THEN Len(seq) - n + 1 ELSE 1, Len(seq))

Range(f) == {f[x] : x \in DOMAIN f}

----------------------------------------------------------------------------
(* Identifiers *)

\* the values uuid.uuid4() returns, in the order it returns them
UUIDS == <<"u1", "u2", "u3", "u4", "u5", "u6", "u7", "u8", "u9", "u10", "u11", "u12">>

None == "None"
Falsy == {None, ""}

EmptyMap == [k \in {} |-> k]

\* an assignment that forgets the other keys
Put_alone(m, k, v) == [x \in {k} |-> v]

Put(m, k, v) == [x \in DOMAIN m \cup {k} |-> IF x = k THEN v ELSE m[x]]
Pop(m, k) == [x \in DOMAIN m \ {k} |-> m[x]]

----------------------------------------------------------------------------
(* Storage *)

\* A JSON value, as json.dump writes it: an object (members by name), an
\* array, a string or a number.
JObject(members) == [j |-> "object", v |-> members]
JArray(items) == [j |-> "array", v |-> items]
JString(str) == [j |-> "string", v |-> str]
JNumber(n) == [j |-> "number", v |-> n]

\* json.dump of a message, a session and the sessions mapping
json_dump_message(msg) ==
    JObject([role |-> JString(msg.role), content |-> JString(msg.content)])

json_dump_session(session) ==
    JObject([id |-> JString(session.id),
             messages |-> JArray([i \in DOMAIN session.messages |->
                                     json_dump_message(session.messages[i])]),
             documents |-> JArray([i \in DOMAIN session.documents |->
                                      JString(session.documents[i])])])

json_dump_sessions(sessions) ==
    JObject([k \in DOMAIN sessions |-> json_dump_session(sessions[k])])

\* json.dump of a document record and of the documents mapping
json_dump_document(doc) ==
    JObject([id |-> JString(doc.id), filename |-> JString(doc.filename),
             content |-> JString(doc.content), file_type |-> JString(doc.file_type),
             file_size |-> JNumber(doc.file_size),
             text_length |-> JNumber(doc.text_length)])

json_dump_documents(documents) ==
    JObject([k \in DOMAIN documents |-> json_dump_document(documents[k])])

\* json.load: objects become dicts, arrays lists, strings and numbers themselves
RECURSIVE json_load(_)
json_load(x) ==
    CASE x.j = "object" -> [k \in DOMAIN x.v |-> json_load(x.v[k])]
      [] x.j = "array" -> [i \in DOMAIN x.v |-> json_load(x.v[i])]
      [] OTHER -> x.v

SaveOutcomes == {"ok", "unchanged", "truncated"}

FS == [cs |-> chat_sessions_file, ud |-> uploaded_documents_file, bad |-> unreadable]

load_chat_sessions(fs) == IF "cs" \in fs.bad THEN EmptyMap ELSE fs.cs

load_uploaded_documents(fs) == IF "ud" \in fs.bad THEN EmptyMap ELSE fs.ud

\* a save that adds to the file's mapping instead of replacing it
save_chat_sessions_merged(fs, sessions, o) ==
    CASE o = "ok" ->
             [fs EXCEPT !.cs = json_load(json_dump_sessions(
                                   [k \in DOMAIN fs.cs \cup DOMAIN sessions |->
                                       IF k \in DOMAIN sessions THEN sessions[k]
                                       ELSE fs.cs[k]])),
                        !.bad = @ \ {"cs"}]
      [] o = "unchanged" -> fs
      [] o = "truncated" -> [fs EXCEPT !.bad = @ \cup {"cs"}]

\* o = "ok": the file is overwritten; "unchanged": open() raised;
\* "truncated": open() truncated the file and the write raised
save_chat_sessions(fs, sessions, o) ==
    CASE o = "ok" -> [fs EXCEPT !.cs = json_load(json_dump_sessions(sessions)), !.bad = @ \ {"cs"}]
      [] o = "unchanged" -> fs
      [] o = "truncated" -> [fs EXCEPT !.bad = @ \cup {"cs"}]

save_uploaded_documents(fs, documents, o) ==
    CASE o = "ok" -> [fs EXCEPT !.ud = json_load(json_dump_documents(documents)), !.bad = @ \ {"ud"}]
      [] o = "unchanged" -> fs
      [] o = "truncated" -> [fs EXCEPT !.bad = @ \cup {"ud"}]

Commit(fs) ==
    /\ chat_sessions_file' = fs.cs
    /\ uploaded_documents_file' = fs.ud
    /\ unreadable' = fs.bad

\* the outcomes a write can have while the environment may cause n more failures
Outcomes(n) == IF n = 0 THEN {"ok"} ELSE SaveOutcomes

Failures(os) == Cardinality({i \in DOMAIN os : os[i] # "ok"})

----------------------------------------------------------------------------
(* Sessions *)

NewSession(id) == [id |-> id, messages |-> <<>>, documents |-> <<>>]

\* a creation that writes the new session alone
get_or_create_chat_session_alone(fs, chat_id, uuid, o) ==
    LET chat_sessions == load_chat_sessions(fs) IN
    IF chat_id \in Falsy \/ chat_id \notin DOMAIN chat_sessions
    THEN [chat_id |-> uuid,
          fs |-> save_chat_sessions(fs, Put(EmptyMap, uuid, NewSession(uuid)), o),
          created |-> TRUE]
    ELSE [chat_id |-> chat_id, fs |-> fs, created |-> FALSE]

\* a lookup that takes any non-empty id as given, stored or not
get_or_create_chat_session_unverified(fs, chat_id, uuid, o) ==
    LET chat_sessions == load_chat_sessions(fs) IN
    IF chat_id \in Falsy
    THEN [chat_id |-> uuid,
          fs |-> save_chat_sessions(fs, Put(chat_sessions, uuid, NewSession(uuid)), o),
          created |-> TRUE]
    ELSE [chat_id |-> chat_id, fs |-> fs, created |-> FALSE]

get_or_create_chat_session(fs, chat_id, uuid, o) ==
    LET chat_sessions == load_chat_sessions(fs) IN
    IF chat_id \in Falsy \/ chat_id \notin DOMAIN chat_sessions
    THEN [chat_id |-> uuid,
          fs |-> save_chat_sessions(fs, Put(chat_sessions, uuid, NewSession(uuid)), o),
          created |-> TRUE]  \* created: uuid4 and save_chat_sessions were called
    ELSE [chat_id |-> chat_id, fs |-> fs, created |-> FALSE]

----------------------------------------------------------------------------
(* Prompt *)

SYSTEM_PROMPT == "SYSTEM_PROMPT"

APOLOGY == <<"I apologize, but I encountered an error processing your request. Please try again.">>

\* one rendered line of the conversation window
HistoryLine(msg) ==
    <<IF msg.role = "user" THEN "User" ELSE "Sera", ":", " ">> \o msg.content \o <<"\n">>

RECURSIVE HistoryLines(_)
HistoryLines(msgs) ==
    IF msgs = <<>> THEN <<>> ELSE HistoryLine(Head(msgs)) \o HistoryLines(Tail(msgs))

\* a window taken from the front of the history
recent_messages_oldest(messages) ==
    SubSeq(messages, 1, IF Len(messages) > HistoryWindow THEN HistoryWindow ELSE Len(messages))

recent_messages(messages) == LastN(messages, HistoryWindow)

\* the string generate_response hands to model.generate_content
full_prompt(fs, prompt, chat_id, context) ==
    LET chat_sessions == load_chat_sessions(fs)
        recent == IF chat_id \in DOMAIN chat_sessions
                  THEN recent_messages(chat_sessions[chat_id].messages)
                  ELSE <<>>
    IN  <<SYSTEM_PROMPT, "\n", "\n">>
        \o (IF context # <<>>
            THEN <<"Document Context:", "\n">> \o context \o <<"\n", "\n">>
            ELSE <<>>)
        \o (IF recent # <<>>
            THEN <<"Recent conversation:", "\n">> \o HistoryLines(recent) \o <<"\n">>
            ELSE <<>>)
        \o <<"User", ":", " ">> \o prompt \o <<"\n", "Sera", ":">>

\* what the remote model call does: it raises, or it returns a text
ModelReplies == {<<"o", "k">>}
ModelOutcomes ==
    {[raised |-> FALSE, text |-> t] : t \in ModelReplies}
    \cup {[raised |-> TRUE, text |-> <<>>]}

\* a gateway that passes on whatever text the failed call left
generate_response_unmasked(outcome) == outcome.text

\* generate_response from the model call on: the reply's text, or the apology
generate_response(outcome) == IF outcome.raised THEN APOLOGY ELSE outcome.text

----------------------------------------------------------------------------
(* POST /api/chat *)

Idle == [pc |-> "idle"]

\* what a client keeps of a success response to a chat, upload or delete
\* request: the request, the session id and, for an upload, the document id
Receipt(r) ==
    [n |-> r.n, op |-> r.op,
     chatId |-> IF r.op = "delete" THEN r.chatId ELSE r.response.chatId,
     documentId |-> IF r.op = "upload" THEN r.response.documentId ELSE None]

\* the response of this step, if any, reaches its client
Answer ==
    returned' = IF /\ resp'.n # resp.n
                   /\ resp'.op \in {"chat", "upload", "delete"}
                   /\ resp'.status = 200
                THEN returned \cup {Receipt(resp')}
                ELSE returned

RECURSIVE doc_texts(_, _)
doc_texts(doc_ids, uploaded_documents) ==
    IF doc_ids = <<>> THEN <<>>
    ELSE (IF Head(doc_ids) \in DOMAIN uploaded_documents
          THEN <<uploaded_documents[Head(doc_ids)].content>>
          ELSE <<>>)
         \o doc_texts(Tail(doc_ids), uploaded_documents)

\* a context made of the session's first document alone
chat_context_first_only(chat_sessions, uploaded_documents, chat_id) ==
    IF chat_id \in DOMAIN chat_sessions /\ chat_sessions[chat_id].documents # <<>>
    THEN join(<<"\n", "\n">>,
              doc_texts(<<Head(chat_sessions[chat_id].documents)>>, uploaded_documents))
    ELSE <<>>

chat_context(chat_sessions, uploaded_documents, chat_id) ==
    IF chat_id \in DOMAIN chat_sessions /\ chat_sessions[chat_id].documents # <<>>
    THEN join(<<"\n", "\n">>, doc_texts(chat_sessions[chat_id].documents, uploaded_documents))
    ELSE <<>>

\* the turn stored with the reply first
turn_messages_reply_first(message, response_text) ==
    <<[role |-> "assistant", content |-> response_text],
      [role |-> "user", content |-> message]>>

turn_messages(message, response_text) ==
    <<[role |-> "user", content |-> message],
      [role |-> "assistant", content |-> response_text]>>

\* a save of the turn's own session alone
with_turn_only(chat_sessions, chat_id, message, response_text) ==
    [k \in {chat_id} |->
        [chat_sessions[chat_id] EXCEPT !.messages =
            @ \o turn_messages(message, response_text)]]

\* a save into the sessions as the file holds them now
with_turn_reloaded(chat_sessions, chat_id, message, response_text) ==
    Put(load_chat_sessions(FS), chat_id,
        [(IF chat_id \in DOMAIN load_chat_sessions(FS)
          THEN load_chat_sessions(FS) ELSE chat_sessions)[chat_id]
         EXCEPT !.messages =
            chat_sessions[chat_id].messages \o turn_messages(message, response_text)])

\* the sessions the handler saves: those it loaded before the model call,
\* with the turn appended to its own
with_turn(chat_sessions, chat_id, message, response_text) ==
    [chat_sessions EXCEPT ![chat_id].messages =
        @ \o turn_messages(message, response_text)]

\* chat_endpoint up to the awaited model call
ChatStart(s, message, chatId, o) ==
    /\ inflight[s] = Idle
    /\ started < MaxRequests
    /\ uuids < Len(UUIDS)
    /\ LET g == get_or_create_chat_session(FS, chatId, UUIDS[uuids + 1], o)
           chat_sessions == load_chat_sessions(g.fs)
           uploaded_documents == load_uploaded_documents(g.fs)
           context == chat_context(chat_sessions, uploaded_documents, g.chat_id)
           failed == IF g.created THEN Failures(<<o>>) ELSE 0
       IN  /\ ~g.created => o = "ok"
           /\ failed <= faults
           /\ faults' = faults - failed
           /\ uuids' = IF g.created THEN uuids + 1 ELSE uuids
           /\ Commit(g.fs)
           /\ inflight' = [inflight EXCEPT ![s] =
                  [pc |-> "chat", n |-> started + 1, message |-> message, chatId |-> chatId,
                   chat_id |-> g.chat_id, chat_sessions |-> chat_sessions,
                   context |-> context,
                   full_prompt |-> full_prompt(g.fs, message, g.chat_id, context),
                   save_failed |-> failed > 0]]
    /\ started' = started + 1
    /\ UNCHANGED resp
    /\ Answer
    /\ UNCHANGED backups

\* chat_endpoint from the model call's return to the response
ChatFinish(s, outcome, o) ==
    /\ inflight[s].pc = "chat"
    /\ LET r == inflight[s]
           response_text == generate_response(outcome)
       IN  IF r.chat_id \notin DOMAIN r.chat_sessions
           THEN \* KeyError at chat_sessions[chat_id], caught by the handler
                /\ o = "ok"
                /\ resp' = [op |-> "chat", n |-> r.n, status |-> 500,
                            detail |-> "Internal server error", chatId |-> r.chatId,
                            message |-> r.message, raised |-> outcome.raised,
                            save_failed |-> r.save_failed]
                /\ UNCHANGED <<chat_sessions_file, uploaded_documents_file,
                               unreadable, faults>>
           ELSE LET chat_sessions ==
                        with_turn(r.chat_sessions, r.chat_id, r.message, response_text)
                IN  /\ Failures(<<o>>) <= faults
                    /\ faults' = faults - Failures(<<o>>)
                    /\ Commit(save_chat_sessions(FS, chat_sessions, o))
                    /\ resp' = [op |-> "chat", n |-> r.n, status |-> 200,
                                chatId |-> r.chatId, message |-> r.message,
                                raised |-> outcome.raised,
                                save_failed |-> r.save_failed \/ o # "ok",
                                response |-> [response |-> response_text,
                                              chatId |-> r.chat_id]]
    /\ inflight' = [inflight EXCEPT ![s] = Idle]
    /\ UNCHANGED <<uuids, started>>
    /\ Answer
    /\ UNCHANGED backups

----------------------------------------------------------------------------
(* POST /api/upload *)

allowed_types == {".pdf", ".docx", ".txt"}

\* an uploaded file: its name, len(file_content), and its content: `bytes` is
\* the content as bytes (read for .txt only; "xA0" is the byte 0xA0, which is
\* not valid UTF-8 on its own), `text` is what the PDF or DOCX extraction
\* function returns for it (read for .pdf and .docx only)
Files ==
    { [filename |-> "blank.txt",  size |-> 2, bytes |-> <<"xA0", "\n">>, text |-> <<>>],
      [filename |-> "edge.PDF",   size |-> max_size, bytes |-> <<>>, text |-> <<"b">>],
      [filename |-> "huge.docx",  size |-> max_size + 1, bytes |-> <<>>, text |-> <<"a">>],
      [filename |-> "run.exe",    size |-> 5, bytes |-> <<>>, text |-> <<>>] }

\* os.path.splitext(filename)[1]
splitext_ext(filename) ==
    CASE filename \in {"policy.txt", "blank.txt"} -> ".txt"
      [] filename = "edge.PDF" -> ".PDF"
      [] filename = "huge.docx" -> ".docx"
      [] filename = "run.exe" -> ".exe"
      [] OTHER -> ""

\* str.lower()
lower(e) ==
    CASE e = ".PDF" -> ".pdf"
      [] e = ".TXT" -> ".txt"
      [] e = ".DOCX" -> ".docx"
      [] OTHER -> e

\* bytes.decode('utf-8') raises on a byte that is not valid UTF-8
utf8_decodable(bytes) == \A i \in DOMAIN bytes : bytes[i] # "xA0"

\* bytes.decode('latin-1'): one character per byte, never raises
decode_latin1(bytes) == [i \in DOMAIN bytes |-> IF bytes[i] = "xA0" THEN "nbsp" ELSE bytes[i]]

text_content(file, file_extension) ==
    IF file_extension \in {".pdf", ".docx"} THEN file.text
    ELSE IF utf8_decodable(file.bytes) THEN file.bytes
    ELSE decode_latin1(file.bytes)

\* a check that forgets the strip
no_text_unstripped(text) == text = <<>>

\* not text_content or not text_content.strip()
no_text(text) == text = <<>> \/ strip(text) = <<>>

\* a record whose text_length is the byte size
NewDocument_byte_length(doc_id, file, file_extension, text) ==
    [id |-> doc_id, filename |-> file.filename, content |-> text,
     file_type |-> file_extension, file_size |-> file.size, text_length |-> file.size]

NewDocument(doc_id, file, file_extension, text) ==
    [id |-> doc_id, filename |-> file.filename, content |-> text,
     file_type |-> file_extension, file_size |-> file.size, text_length |-> Len(text)]

analysis_prompt(filename) ==
    <<"I've uploaded a document titled '", filename,
      "'. Please provide a brief summary and key insights from this policy document.">>

\* the new id put in front of the session's list
with_document_first(chat_sessions, chat_id, doc_id) ==
    [chat_sessions EXCEPT ![chat_id].documents = <<doc_id>> \o @]

\* chat_sessions[chat_id]["documents"].append(doc_id)
with_document(chat_sessions, chat_id, doc_id) ==
    [chat_sessions EXCEPT ![chat_id].documents = Append(@, doc_id)]

\* upload_document up to the awaited model call, or to the error it raises
UploadStart(s, file, chatId, o1, o2, o3) ==
    /\ inflight[s] = Idle
    /\ started < MaxRequests
    /\ uuids + 1 < Len(UUIDS)
    /\ started' = started + 1
    /\ LET file_extension == lower(splitext_ext(file.filename))
           text == text_content(file, file_extension)
           req == [op |-> "upload", n |-> started + 1, filename |-> file.filename]
       IN
       IF file_extension \notin allowed_types
       THEN /\ o1 = "ok" /\ o2 = "ok" /\ o3 = "ok"
            /\ resp' = req @@ [status |-> 400, detail |-> "Unsupported file type",
                               save_failed |-> FALSE]
            /\ UNCHANGED <<chat_sessions_file, uploaded_documents_file, unreadable,
                           uuids, inflight, faults>>
       ELSE IF file.size > max_size
       THEN /\ o1 = "ok" /\ o2 = "ok" /\ o3 = "ok"
            /\ resp' = req @@ [status |-> 400, detail |-> "File too large",
                               save_failed |-> FALSE]
            /\ UNCHANGED <<chat_sessions_file, uploaded_documents_file, unreadable,
                           uuids, inflight, faults>>
       ELSE IF no_text(text)
       THEN /\ o1 = "ok" /\ o2 = "ok" /\ o3 = "ok"
            /\ resp' = req @@ [status |-> 400, detail |-> "Could not extract text",
                               save_failed |-> FALSE]
            /\ UNCHANGED <<chat_sessions_file, uploaded_documents_file, unreadable,
                           uuids, inflight, faults>>
       ELSE
       LET doc_id == UUIDS[uuids + 1]
           uploaded_documents ==
               Put(load_uploaded_documents(FS), doc_id,
                   NewDocument(doc_id, file, file_extension, text))
           fs1 == save_uploaded_documents(FS, uploaded_documents, o1)
           g == get_or_create_chat_session(fs1, chatId, UUIDS[uuids + 2], o2)
           chat_sessions == load_chat_sessions(g.fs)
           known == g.chat_id \in DOMAIN chat_sessions
           failed == Failures(<<o1>>) + (IF g.created THEN Failures(<<o2>>) ELSE 0)
                     + (IF known THEN Failures(<<o3>>) ELSE 0)
       IN  /\ ~g.created => o2 = "ok"
           /\ ~known => o3 = "ok"
           /\ failed <= faults
           /\ faults' = faults - failed
           /\ uuids' = IF g.created THEN uuids + 2 ELSE uuids + 1
           /\ IF ~known
              THEN \* KeyError at chat_sessions[chat_id], turned into a 500
                   /\ Commit(g.fs)
                   /\ resp' = req @@ [status |-> 500, detail |-> "Error processing document",
                                      save_failed |-> failed > 0]
                   /\ UNCHANGED inflight
              ELSE LET fs3 == save_chat_sessions(g.fs,
                                  with_document(chat_sessions, g.chat_id, doc_id), o3)
                   IN  /\ Commit(fs3)
                       /\ inflight' = [inflight EXCEPT ![s] =
                              [pc |-> "upload", n |-> started + 1,
                               filename |-> file.filename,
                               chatId |-> chatId, chat_id |-> g.chat_id,
                               doc_id |-> doc_id, file_size |-> file.size,
                               text_content |-> text,
                               full_prompt |-> full_prompt(fs3, analysis_prompt(file.filename),
                                                           g.chat_id, text),
                               save_failed |-> failed > 0]]
                       /\ UNCHANGED resp
    /\ Answer
    /\ UNCHANGED backups

\* upload_document from the model call's return to the response
UploadFinish(s, outcome) ==
    /\ inflight[s].pc = "upload"
    /\ LET r == inflight[s] IN
       resp' = [op |-> "upload", n |-> r.n, chatId |-> r.chatId,
                filename |-> r.filename, status |-> 200,
                raised |-> outcome.raised, save_failed |-> r.save_failed,
                response |-> [success |-> TRUE, documentId |-> r.doc_id,
                              chatId |-> r.chat_id, filename |-> r.filename,
                              fileSize |-> r.file_size,
                              textLength |-> Len(r.text_content),
                              analysis |-> generate_response(outcome)]]
    /\ inflight' = [inflight EXCEPT ![s] = Idle]
    /\ UNCHANGED <<chat_sessions_file, uploaded_documents_file, unreadable, uuids,
                   started, faults>>
    /\ Answer
    /\ UNCHANGED backups

----------------------------------------------------------------------------
(* GET /api/chat/{chat_id}/history, GET /api/chat/{chat_id}/documents *)

\* a success status where the handler raises 404
NotFound_ok == [status |-> 200, detail |-> "Chat session not found"]

NotFound == [status |-> 404, detail |-> "Chat session not found"]

\* a fetch that answers for an unknown id with an empty session
get_chat_history_lenient(fs, chat_id) ==
    LET chat_sessions == load_chat_sessions(fs) IN
    [status |-> 200,
     response |-> IF chat_id \in DOMAIN chat_sessions THEN chat_sessions[chat_id]
                  ELSE NewSession(chat_id)]

get_chat_history(fs, chat_id) ==
    LET chat_sessions == load_chat_sessions(fs) IN
    IF chat_id \notin DOMAIN chat_sessions THEN NotFound
    ELSE [status |-> 200, response |-> chat_sessions[chat_id]]

\* a document record without its content
Metadata(doc) == [f \in DOMAIN doc \ {"content"} |-> doc[f]]

RECURSIVE documents_metadata(_, _)
documents_metadata(doc_ids, uploaded_documents) ==
    IF doc_ids = <<>> THEN <<>>
    ELSE (IF Head(doc_ids) \in DOMAIN uploaded_documents
          THEN <<Metadata(uploaded_documents[Head(doc_ids)])>>
          ELSE <<>>)
         \o documents_metadata(Tail(doc_ids), uploaded_documents)

get_chat_documents(fs, chat_id) ==
    LET chat_sessions == load_chat_sessions(fs)
        uploaded_documents == load_uploaded_documents(fs)
    IN  IF chat_id \notin DOMAIN chat_sessions THEN NotFound
        ELSE [status |-> 200,
              response |-> [documents |->
                  documents_metadata(chat_sessions[chat_id].documents, uploaded_documents)]]

GetChatHistory(chat_id) ==
    /\ started < MaxRequests
    /\ started' = started + 1
    /\ resp' = [op |-> "history", n |-> started + 1, chatId |-> chat_id] @@ get_chat_history(FS, chat_id)
    /\ UNCHANGED <<chat_sessions_file, uploaded_documents_file, unreadable, uuids,
                   inflight, faults>>
    /\ Answer
    /\ UNCHANGED backups

GetChatDocuments(chat_id) ==
    /\ started < MaxRequests
    /\ started' = started + 1
    /\ resp' = [op |-> "documents", n |-> started + 1, chatId |-> chat_id] @@ get_chat_documents(FS, chat_id)
    /\ UNCHANGED <<chat_sessions_file, uploaded_documents_file, unreadable, uuids,
                   inflight, faults>>
    /\ Answer
    /\ UNCHANGED backups

----------------------------------------------------------------------------
(* GET /api/chats, GET /api/health, GET /api/stats *)

\* a preview that is never cut
preview_whole(content) == content

\* the preview of one message content
preview(content) ==
    IF Len(content) > PreviewLength
    THEN SubSeq(content, 1, PreviewLength) \o <<".", ".", ".">>
    ELSE content

\* the loop over reversed(session["messages"]): the latest message of role
\* "user" gives the preview; None when there is none
RECURSIVE last_user_message(_)
last_user_message(messages) ==
    IF messages = <<>> THEN None
    ELSE IF messages[Len(messages)].role = "user"
         THEN preview(messages[Len(messages)].content)
         ELSE last_user_message(SubSeq(messages, 1, Len(messages) - 1))

chat_metadata(session) ==
    LET counts == [id |-> session.id,
                   message_count |-> Len(session.messages),
                   document_count |-> Len(session.documents)]
    IN  IF session.messages # <<>>
        THEN counts @@ [last_message_preview |-> last_user_message(session.messages)]
        ELSE counts

\* the list is ordered by a wall-clock stamp; it is given here by session id
get_all_chats(fs) ==
    LET chat_sessions == load_chat_sessions(fs) IN
    [status |-> 200,
     response |-> [chats |-> [k \in DOMAIN chat_sessions |->
                                 chat_metadata(chat_sessions[k])]]]

GetAllChats ==
    /\ started < MaxRequests
    /\ started' = started + 1
    /\ resp' = [op |-> "chats", n |-> started + 1] @@ get_all_chats(FS)
    /\ UNCHANGED <<chat_sessions_file, uploaded_documents_file, unreadable, uuids,
                   inflight, faults>>
    /\ Answer
    /\ UNCHANGED backups

health_check(fs) ==
    [status |-> 200,
     response |-> [status |-> "healthy",
                   active_sessions |-> Cardinality(DOMAIN load_chat_sessions(fs)),
                   uploaded_documents |-> Cardinality(DOMAIN load_uploaded_documents(fs))]]

HealthCheck ==
    /\ started < MaxRequests
    /\ started' = started + 1
    /\ resp' = [op |-> "health", n |-> started + 1] @@ health_check(FS)
    /\ UNCHANGED <<chat_sessions_file, uploaded_documents_file, unreadable, uuids,
                   inflight, faults>>
    /\ Answer
    /\ UNCHANGED backups

\* sum(f(x) for x in m.values())
RECURSIVE sum(_, _)
sum(m, field) ==
    IF DOMAIN m = {} THEN 0
    ELSE LET k == CHOOSE x \in DOMAIN m : TRUE IN
         (IF field = "messages" THEN Len(m[k].messages) ELSE m[k].text_length)
         + sum(Pop(m, k), field)

get_stats(fs) ==
    LET chat_sessions == load_chat_sessions(fs)
        uploaded_documents == load_uploaded_documents(fs)
    IN  [status |-> 200,
         response |-> [total_chats |-> Cardinality(DOMAIN chat_sessions),
                       total_messages |-> sum(chat_sessions, "messages"),
                       total_documents |-> Cardinality(DOMAIN uploaded_documents),
                       total_text_length |-> sum(uploaded_documents, "text_length")]]

GetStats ==
    /\ started < MaxRequests
    /\ started' = started + 1
    /\ resp' = [op |-> "stats", n |-> started + 1] @@ get_stats(FS)
    /\ UNCHANGED <<chat_sessions_file, uploaded_documents_file, unreadable, uuids,
                   inflight, faults>>
    /\ Answer
    /\ UNCHANGED backups

----------------------------------------------------------------------------
(* POST /api/backup *)

\* the copy of one file: its content as read, readable by json.load or not
Copy(fs, file) == [of |-> file, content |-> fs[file], readable |-> file \notin fs.bad]

\* o = "ok": both copies are written; "truncated": the sessions copy is
\* written and the documents copy fails; "unchanged": mkdir or the first
\* open fails.  The file names carry a wall-clock stamp; the directory is
\* given here as the set of distinct copies.
backup_data(fs, copies, o) ==
    CASE o = "ok" -> [copies |-> copies \cup {Copy(fs, "cs"), Copy(fs, "ud")}, timestamp |-> TRUE]
      [] o = "truncated" -> [copies |-> copies \cup {Copy(fs, "cs")}, timestamp |-> FALSE]
      [] o = "unchanged" -> [copies |-> copies, timestamp |-> FALSE]

CreateBackup(o) ==
    /\ started < MaxRequests
    /\ started' = started + 1
    /\ Failures(<<o>>) <= faults
    /\ faults' = faults - Failures(<<o>>)
    /\ LET b == backup_data(FS, backups, o) IN
       /\ backups' = b.copies
       /\ resp' = IF b.timestamp
                  THEN [op |-> "backup", n |-> started + 1, status |-> 200,
                        response |-> [success |-> TRUE,
                                      message |-> "Backup created successfully"]]
                  ELSE [op |-> "backup", n |-> started + 1, status |-> 500,
                        detail |-> "Failed to create backup"]
    /\ UNCHANGED <<chat_sessions_file, uploaded_documents_file, unreadable, uuids,
                   inflight>>
    /\ Answer

----------------------------------------------------------------------------
(* DELETE /api/chat/{chat_id} *)

\* a cascade that empties the documents collection
pop_all_everything(m, ids) == EmptyMap

RECURSIVE pop_all(_, _)
pop_all(m, ids) == IF ids = <<>> THEN m ELSE pop_all(Pop(m, Head(ids)), Tail(ids))

\* a delete that leaves the session's documents in place
delete_chat_no_cascade(fs, chat_id, o1, o2) ==
    save_uploaded_documents(
        save_chat_sessions(fs, Pop(load_chat_sessions(fs), chat_id), o1),
        load_uploaded_documents(fs), o2)

\* the files after delete_chat's two saves
delete_chat(fs, chat_id, o1, o2) ==
    LET chat_sessions == load_chat_sessions(fs)
        uploaded_documents == load_uploaded_documents(fs)
    IN  save_uploaded_documents(
            save_chat_sessions(fs, Pop(chat_sessions, chat_id), o1),
            pop_all(uploaded_documents, chat_sessions[chat_id].documents), o2)

DeleteChat(chat_id, o1, o2) ==
    /\ started < MaxRequests
    /\ started' = started + 1
    /\ IF chat_id \in DOMAIN load_chat_sessions(FS)
       THEN /\ Failures(<<o1, o2>>) <= faults
            /\ faults' = faults - Failures(<<o1, o2>>)
            /\ Commit(delete_chat(FS, chat_id, o1, o2))
            /\ resp' = [op |-> "delete", n |-> started + 1, chatId |-> chat_id,
                        status |-> 200,
                        save_failed |-> Failures(<<o1, o2>>) > 0,
                        response |-> [success |-> TRUE, message |-> "Chat session deleted"]]
       ELSE /\ o1 = "ok" /\ o2 = "ok"
            /\ resp' = [op |-> "delete", n |-> started + 1, chatId |-> chat_id,
                        save_failed |-> FALSE]
                       @@ NotFound
            /\ UNCHANGED <<chat_sessions_file, uploaded_documents_file, unreadable, faults>>
    /\ UNCHANGED <<uuids, inflight>>
    /\ Answer
    /\ UNCHANGED backups

----------------------------------------------------------------------------
(* Initial states and the next-state relation *)

\* the k-th message of a stored conversation: k characters, so no two are
\* alike; one user message is longer than a preview
LongMessage == 11

RECURSIVE Repeat(_, _)
Repeat(c, k) == IF k = 0 THEN <<>> ELSE <<c>> \o Repeat(c, k - 1)

StoredMessage(k) ==
    [role |-> IF k % 2 = 1 THEN "user" ELSE "assistant",
     content |-> Repeat("a", IF k = LongMessage THEN PreviewLength + 1 ELSE k)]

StoredHistory(n) == [k \in 1..n |-> StoredMessage(k)]

ChatMessages == {<<"h", "i">>}

\* ids a client sends: ids the server has issued, and one it never issues
Issued == {UUIDS[i] : i \in 1..uuids}
PathIds == ({"u1", "u3"} \cap Issued) \cup {"bogus"}
ChatIds == Falsy \cup PathIds

\* the slots are interchangeable: a new coroutine takes the first free one
FreeSlot == IF inflight["c1"] = Idle THEN "c1" ELSE "c2"

\* what the files hold at start-up: init_storage_files keeps existing files,
\* so either nothing, or what an earlier run left: here a session of six
\* turns with one document
StoredDocument ==
    NewDocument("u2", [filename |-> "policy.txt", size |-> 3], ".txt", <<"a", " ", "b">>)

Stores ==
    { [cs |-> EmptyMap, ud |-> EmptyMap, uuids |-> 0],
      [cs |-> Put(EmptyMap, "u1",
                  [id |-> "u1", messages |-> StoredHistory(12), documents |-> <<"u2">>]),
       ud |-> Put(EmptyMap, "u2", StoredDocument),
       uuids |-> 2] }

InitFiles ==
    \E st \in Stores :
        /\ chat_sessions_file = json_load(json_dump_sessions(st.cs))
        /\ uploaded_documents_file = json_load(json_dump_documents(st.ud))
        /\ uuids = st.uuids

Init ==
    /\ InitFiles
    /\ unreadable = {}
    /\ inflight = [s \in Slots |-> Idle]
    /\ resp = [op |-> "none", n |-> 0]
    /\ started = 0
    /\ faults = 0
    /\ returned = {}
    /\ backups = {}

\* the same start, in an environment whose writes may fail
InitFault ==
    /\ InitFiles
    /\ unreadable = {}
    /\ inflight = [s \in Slots |-> Idle]
    /\ resp = [op |-> "none", n |-> 0]
    /\ started = 0
    /\ faults = MaxFaults
    /\ returned = {}
    /\ backups = {}

Next ==
    \/ \E m \in ChatMessages, c \in ChatIds, o \in Outcomes(faults) :
           ChatStart(FreeSlot, m, c, o)
    \/ \E s \in Slots, out \in ModelOutcomes, o \in Outcomes(faults) :
           ChatFinish(s, out, o)
    \/ \E f \in Files, c \in ChatIds, o1, o2, o3 \in Outcomes(faults) :
           UploadStart(FreeSlot, f, c, o1, o2, o3)
    \/ \E s \in Slots, out \in ModelOutcomes : UploadFinish(s, out)
    \/ \E c \in PathIds : GetChatHistory(c)
    \/ \E c \in PathIds : GetChatDocuments(c)
    \/ \E c \in PathIds, o1, o2 \in Outcomes(faults) : DeleteChat(c, o1, o2)
    \/ GetAllChats
    \/ HealthCheck
    \/ GetStats
    \/ \E o \in Outcomes(faults) : CreateBackup(o)

Spec == Init /\ [][Next]_vars

SpecFault == InitFault /\ [][Next]_vars

----------------------------------------------------------------------------
(* Steps, as seen from two successive states *)

\* the two collections, as the files hold them
StoredSessions == chat_sessions_file
StoredDocuments == uploaded_documents_file

\* a request of kind op got its response in this step
Completed(op) == resp'.n # resp.n /\ resp'.op = op

\* slot s ran chat_endpoint up to the model call in this step
StartedChat(s) == inflight[s] = Idle /\ inflight'[s].pc = "chat"

\* slot s ran upload_document up to the model call in this step
StartedUpload(s) == inflight[s] = Idle /\ inflight'[s].pc = "upload"

\* slot s resumed after the model call and finished in this step
Finished(s, pc) == inflight[s].pc = pc /\ inflight'[s] = Idle

----------------------------------------------------------------------------
(* Claims *)

\* C1: a chat request that returns success on session s leaves, right after
\* its save, the messages of s equal to the sequence the request read for s
\* followed by exactly two messages: the user's text with role "user", then
\* the returned response text with role "assistant".
C1_ChatAppendsTurn ==
    [][\A s \in Slots :
          (Finished(s, "chat") /\ resp'.status = 200) =>
              LET r == inflight[s]
                  cid == resp'.response.chatId
              IN  /\ cid \in DOMAIN r.chat_sessions
                  /\ cid \in DOMAIN StoredSessions'
                  /\ StoredSessions'[cid].messages =
                         r.chat_sessions[cid].messages
                         \o <<[role |-> "user", content |-> r.message],
                              [role |-> "assistant",
                               content |-> resp'.response.response]>>]_vars

\* a successful chat turn on a session that already had a history
C1_Witness ==
    /\ resp.op = "chat" /\ resp.status = 200
    /\ resp.response.chatId \in DOMAIN StoredSessions
    /\ LET h == StoredSessions[resp.response.chatId].messages IN
       /\ Len(h) > 2
       /\ h[Len(h) - 1] = [role |-> "user", content |-> resp.message]
       /\ h[Len(h)] = [role |-> "assistant", content |-> resp.response.response]

\* C2: after a DELETE on a stored session id returns success, the sessions
\* collection no longer holds the id, the documents collection holds none of
\* the document ids the session listed, and a history or documents fetch for
\* the id, issued next, returns 404 "Chat session not found".
C2_DeleteRemoves ==
    [][(Completed("delete") /\ resp'.status = 200) =>
          LET id == resp'.chatId IN
          /\ id \in DOMAIN StoredSessions
          /\ id \notin DOMAIN StoredSessions'
          /\ \A d \in Range(StoredSessions[id].documents) :
                 d \notin DOMAIN StoredDocuments'
          /\ get_chat_history(FS', id) = NotFound
          /\ get_chat_documents(FS', id) = NotFound]_vars

\* the stored session u1, which listed document u2, has just been deleted
C2_Witness ==
    /\ resp.op = "delete" /\ resp.status = 200 /\ resp.chatId = "u1"
    /\ started = 1 /\ uuids = 2
    /\ "u2" \notin DOMAIN StoredDocuments
    /\ get_chat_history(FS, "u1").status = 404

\* C3: get_or_create_chat_session called with no id (None or empty) returns an
\* id that differs from every id returned or stored earlier; after the call
\* the file holds a session under it with no messages (and no documents but
\* the one the calling upload appends), and every session stored before is
\* still stored, unchanged.
C3_NoIdCreatesFresh ==
    [][\A s \in Slots :
          /\ (StartedChat(s) /\ inflight'[s].chatId \in Falsy) =>
                 LET id == inflight'[s].chat_id IN
                 /\ id \notin Issued
                 /\ id \notin DOMAIN StoredSessions
                 /\ DOMAIN StoredSessions' = DOMAIN StoredSessions \cup {id}
                 /\ StoredSessions'[id].messages = <<>>
                 /\ StoredSessions'[id].documents = <<>>
                 /\ \A x \in DOMAIN StoredSessions :
                        StoredSessions'[x] = StoredSessions[x]
          /\ (StartedUpload(s) /\ inflight'[s].chatId \in Falsy) =>
                 LET id == inflight'[s].chat_id IN
                 /\ id \notin Issued
                 /\ id # inflight'[s].doc_id
                 /\ id \notin DOMAIN StoredSessions
                 /\ DOMAIN StoredSessions' = DOMAIN StoredSessions \cup {id}
                 /\ StoredSessions'[id].messages = <<>>
                 /\ StoredSessions'[id].documents = <<inflight'[s].doc_id>>
                 /\ \A x \in DOMAIN StoredSessions :
                        StoredSessions'[x] = StoredSessions[x]]_vars

\* a chat without id has created an empty session next to a stored one
C3_Witness ==
    \E s \in Slots :
        /\ inflight[s].pc = "chat" /\ inflight[s].chatId \in Falsy
        /\ inflight[s].chat_id \in DOMAIN StoredSessions
        /\ StoredSessions[inflight[s].chat_id] = NewSession(inflight[s].chat_id)
        /\ Cardinality(DOMAIN StoredSessions) >= 2

\* C4 as stated: get_or_create_chat_session called with any non-empty id
\* returns exactly that id and writes nothing, stored or not, so a chat or
\* upload that supplies a chatId gets the same chatId back.
C4_AsStated ==
    [][/\ \A s \in Slots :
              ((StartedChat(s) \/ StartedUpload(s)) /\ inflight'[s].chatId \notin Falsy)
                  => inflight'[s].chat_id = inflight'[s].chatId
       /\ \A s \in Slots :
              (StartedChat(s) /\ inflight'[s].chatId \notin Falsy)
                  => StoredSessions' = StoredSessions
       /\ ((Completed("chat") \/ Completed("upload"))
               /\ resp'.status = 200 /\ resp'.chatId \notin Falsy)
              => resp'.response.chatId = resp'.chatId]_vars

\* C4, amended: called with a non-empty id that is a key of the stored
\* sessions, get_or_create_chat_session returns exactly that id and writes
\* nothing; called with a non-empty id that is not stored, it does what it
\* does with no id: a fresh id, a new empty session saved under it, the fresh
\* id returned.  The successful response carries the id the call returned.
C4_SuppliedId ==
    [][\A s \in Slots :
          /\ (StartedChat(s) /\ inflight'[s].chatId \notin Falsy) =>
                 LET given == inflight'[s].chatId
                     id == inflight'[s].chat_id
                 IN  IF given \in DOMAIN StoredSessions
                     THEN /\ id = given
                          /\ StoredSessions' = StoredSessions
                          /\ StoredDocuments' = StoredDocuments
                          /\ uuids' = uuids
                     ELSE /\ id # given
                          /\ id \notin Issued
                          /\ StoredSessions' =
                                 Put(StoredSessions, id,
                                     [id |-> id, messages |-> <<>>, documents |-> <<>>])
          /\ (StartedUpload(s) /\ inflight'[s].chatId \notin Falsy) =>
                 LET given == inflight'[s].chatId
                     id == inflight'[s].chat_id
                 IN  IF given \in DOMAIN StoredSessions
                     THEN /\ id = given
                          /\ DOMAIN StoredSessions' = DOMAIN StoredSessions
                     ELSE /\ id # given
                          /\ id \notin Issued
                          /\ DOMAIN StoredSessions' =
                                 DOMAIN StoredSessions \cup {id}
          /\ ((Finished(s, "chat") \/ Finished(s, "upload")) /\ resp'.status = 200)
                 => resp'.response.chatId = inflight[s].chat_id]_vars

\* a chat that supplied an id not in storage was answered under a new id
C4_Witness ==
    /\ resp.op = "chat" /\ resp.status = 200
    /\ resp.chatId = "bogus"
    /\ resp.response.chatId # "bogus"
    /\ resp.response.chatId \in DOMAIN StoredSessions

\* the file an upload request carried
FileNamed(filename) == CHOOSE f \in Files : f.filename = filename

\* C5: an upload whose extension is not .pdf, .docx or .txt, whose content is
\* larger than 10 MiB, or whose extracted text is empty or all whitespace is
\* answered 400, and an upload answered 400 leaves both collections as they
\* were.
C5_RejectedUpload ==
    [][Completed("upload") =>
          LET f == FileNamed(resp'.filename)
              ext == lower(splitext_ext(f.filename))
              text == text_content(f, ext)
              rejected == \/ ext \notin {".pdf", ".docx", ".txt"}
                          \/ f.size > 10 * 1024 * 1024
                          \/ \A i \in DOMAIN text : text[i] \in Whitespace
          IN  /\ rejected => resp'.status = 400
              /\ resp'.status = 400 =>
                     /\ StoredSessions' = StoredSessions
                     /\ StoredDocuments' = StoredDocuments]_vars

\* a whitespace-only upload was refused while both collections held records
C5_Witness ==
    /\ resp.op = "upload" /\ resp.status = 400 /\ resp.filename = "blank.txt"
    /\ DOMAIN StoredSessions # {}
    /\ DOMAIN StoredDocuments # {}

\* C6: every stored document has content with at least one non-whitespace
\* character, and its text_length is the length of that content.
C6_StoredContent ==
    \A d \in DOMAIN StoredDocuments :
        LET doc == StoredDocuments[d] IN
        /\ \E i \in DOMAIN doc.content : doc.content[i] \notin Whitespace
        /\ doc.text_length = Len(doc.content)

\* a document stored by an upload of this run
C6_Witness ==
    \E d \in DOMAIN StoredDocuments :
        /\ StoredDocuments[d].filename = "edge.PDF"
        /\ StoredDocuments[d].file_size > StoredDocuments[d].text_length

\* the prompt p carries a document section, and the section's text is ctx
HasDocSection(p, ctx) ==
    /\ Len(p) > 7 + Len(ctx)
    /\ SubSeq(p, 1, 7 + Len(ctx)) =
           <<SYSTEM_PROMPT, "\n", "\n", "Document Context:", "\n">> \o ctx \o <<"\n", "\n">>
    /\ p[8 + Len(ctx)] \in {"Recent conversation:", "User"}

NoDocSection(p) == "Document Context:" \notin Range(p)

\* the new user message of the prompt a suspended request built
UserMessage(r) == IF r.pc = "chat" THEN r.message ELSE analysis_prompt(r.filename)

\* C7: in every prompt generate_response builds, the "Document Context"
\* section is present only if the session lists at least one document, and
\* the "Recent conversation" section holds exactly the last min(10, n)
\* messages of the session's stored history of length n, oldest first,
\* followed by the new user message as the final "User:" line.
C7_PromptWindow ==
    [][\A s \in Slots :
          (StartedChat(s) \/ StartedUpload(s)) =>
              LET r == inflight'[s]
                  p == r.full_prompt
                  h == StoredSessions'[r.chat_id].messages
                  n == Len(h)
                  k == IF n < 10 THEN n ELSE 10
                  window == [i \in 1..k |-> h[n - k + i]]
                  conv == IF k = 0 THEN <<>>
                          ELSE <<"Recent conversation:", "\n">>
                               \o HistoryLines(window) \o <<"\n">>
                  last == <<"User", ":", " ">> \o UserMessage(r) \o <<"\n", "Sera", ":">>
                  cut == Len(p) - Len(conv) - Len(last)
              IN  /\ r.chat_id \in DOMAIN StoredSessions'
                  /\ cut >= 0
                  /\ SubSeq(p, cut + 1, Len(p)) = conv \o last
                  /\ "Recent conversation:" \notin Range(SubSeq(p, 1, cut))
                  /\ ~NoDocSection(p) =>
                         StoredSessions'[r.chat_id].documents # <<>>]_vars

\* a chat on a session of more than ten messages is waiting for the model
C7_Witness ==
    \E s \in Slots :
        /\ inflight[s].pc = "chat"
        /\ inflight[s].chat_id \in DOMAIN StoredSessions
        /\ Len(StoredSessions[inflight[s].chat_id].messages) > 10
        /\ "Recent conversation:" \in Range(inflight[s].full_prompt)
        /\ ~NoDocSection(inflight[s].full_prompt)

\* the texts of the listed documents, in list order
ListedTexts(doc_ids, documents) == [i \in DOMAIN doc_ids |-> documents[doc_ids[i]].content]

\* C8 as stated: whenever a prompt is built for a session that lists at least
\* one document, in a chat turn or in an upload's analysis step, its document
\* section is the texts of all the documents the session lists, in list
\* order, joined by a blank line.
C8_AsStated ==
    [][\A s \in Slots :
          (StartedChat(s) \/ StartedUpload(s)) =>
              LET r == inflight'[s]
                  docs == StoredSessions'[r.chat_id].documents
              IN  docs # <<>> =>
                      /\ \A i \in DOMAIN docs : docs[i] \in DOMAIN StoredDocuments'
                      /\ HasDocSection(r.full_prompt,
                             join(<<"\n", "\n">>,
                                  ListedTexts(docs, StoredDocuments')))]_vars

StoredOnly(doc_ids, documents) ==
    LET Stored(d) == d \in DOMAIN documents IN SelectSeq(doc_ids, Stored)

\* C8, amended: the prompt of a chat turn carries, as its document section,
\* the texts of those documents the session lists that are in the documents
\* collection, in list order, joined by a blank line, and no document section
\* when there is none; the prompt of an upload's analysis step carries the
\* text of the document just uploaded, and of no other document.
C8_DocumentSection ==
    [][\A s \in Slots :
          /\ StartedChat(s) =>
                 LET r == inflight'[s]
                     docs == StoredOnly(StoredSessions'[r.chat_id].documents,
                                        StoredDocuments')
                 IN  IF docs = <<>>
                     THEN NoDocSection(r.full_prompt)
                     ELSE HasDocSection(r.full_prompt,
                              join(<<"\n", "\n">>,
                                   ListedTexts(docs, StoredDocuments')))
          /\ StartedUpload(s) =>
                 LET r == inflight'[s] IN
                 /\ r.doc_id \in DOMAIN StoredDocuments'
                 /\ HasDocSection(r.full_prompt,
                                  StoredDocuments'[r.doc_id].content)]_vars

\* a chat on a session with two stored documents is waiting for the model
C8_Witness ==
    \E s \in Slots :
        /\ inflight[s].pc = "chat"
        /\ inflight[s].chat_id \in DOMAIN StoredSessions
        /\ LET docs == StoredSessions[inflight[s].chat_id].documents IN
           /\ Len(docs) = 2
           /\ \A i \in DOMAIN docs : docs[i] \in DOMAIN StoredDocuments
           /\ HasDocSection(inflight[s].full_prompt,
                  join(<<"\n", "\n">>, ListedTexts(docs, StoredDocuments)))
           /\ Len(inflight[s].context) = 6

\* C9: when the model call fails, generate_response returns the apology and
\* raises nothing: the chat request returns success with the apology as its
\* text and stores the turn (the user text, then the apology as the
\* assistant message); an upload returns success with the apology as its
\* analysis.
C9_FailureMasked ==
    [][\A s \in Slots :
          /\ (Finished(s, "chat") /\ resp'.raised) =>
                 LET r == inflight[s] IN
                 /\ resp'.status = 200
                 /\ resp'.response.response = APOLOGY
                 /\ r.chat_id \in DOMAIN StoredSessions'
                 /\ StoredSessions'[r.chat_id].messages =
                        r.chat_sessions[r.chat_id].messages
                        \o <<[role |-> "user", content |-> r.message],
                             [role |-> "assistant", content |-> APOLOGY]>>
          /\ (Finished(s, "upload") /\ resp'.raised) =>
                 /\ resp'.status = 200
                 /\ resp'.response.analysis = APOLOGY]_vars

\* a chat whose model call failed was answered 200 with the apology
C9_Witness ==
    /\ resp.op = "chat" /\ resp.raised /\ resp.status = 200
    /\ resp.response.response = APOLOGY
    /\ resp.response.chatId \in DOMAIN StoredSessions
    /\ LET h == StoredSessions[resp.response.chatId].messages IN
       Len(h) >= 2 /\ h[Len(h)].content = APOLOGY

\* C10: a chat, upload or delete request during which a save failed still
\* returns its success response.
C10_SaveFailureSwallowed ==
    (resp.op \in {"chat", "upload", "delete"} /\ resp.save_failed) => resp.status = 200

\* the mappings a handler may hold when it saves: what it loaded, what it
\* loaded less one key, and the snapshot of a turn in flight
C11_SessionMappings ==
    {load_chat_sessions(FS)}
    \cup {Pop(load_chat_sessions(FS), k) : k \in DOMAIN load_chat_sessions(FS)}
    \cup {inflight[s].chat_sessions : s \in {x \in Slots : inflight[x].pc = "chat"}}

C11_DocumentMappings ==
    {load_uploaded_documents(FS)}
    \cup {Pop(load_uploaded_documents(FS), k) : k \in DOMAIN load_uploaded_documents(FS)}

\* C11: for each collection, a save of mapping m whose write succeeds,
\* followed by a load with no write in between, returns a mapping equal to m.
C11_SaveLoadRoundTrip ==
    /\ \A m \in C11_SessionMappings :
           load_chat_sessions(save_chat_sessions(FS, m, "ok")) = m
    /\ \A m \in C11_DocumentMappings :
           load_uploaded_documents(save_uploaded_documents(FS, m, "ok")) = m

\* a turn in flight holds a snapshot that differs from the stored sessions,
\* and both collections hold records
C11_Witness ==
    /\ DOMAIN StoredSessions # {} /\ DOMAIN StoredDocuments # {}
    /\ \E s \in Slots :
           /\ inflight[s].pc = "chat"
           /\ DOMAIN inflight[s].chat_sessions # {}
           /\ inflight[s].chat_sessions # StoredSessions

\* C12: a stored Document stays in the documents collection with unchanged
\* content until a delete request removes a session that lists its id; no
\* chat, upload, read or backup request removes or alters it.
C12_DocumentsPersist ==
    [][\A d \in DOMAIN StoredDocuments :
          \/ /\ d \in DOMAIN StoredDocuments'
             /\ StoredDocuments'[d] = StoredDocuments[d]
          \/ /\ Completed("delete") /\ resp'.status = 200
             /\ resp'.chatId \in DOMAIN StoredSessions
             /\ resp'.chatId \notin DOMAIN StoredSessions'
             /\ d \in Range(StoredSessions[resp'.chatId].documents)]_vars

\* a document stored by an upload that returned success is still there,
\* unaltered, after a later upload has returned as well
C12_Witness ==
    /\ resp.op = "upload" /\ resp.status = 200
    /\ \E f \in returned :
           /\ f.op = "upload" /\ f.n < resp.n
           /\ f.documentId \in DOMAIN StoredDocuments
           /\ StoredDocuments[f.documentId].id = f.documentId
           /\ StoredDocuments[f.documentId].filename = "edge.PDF"

\* C13: a DELETE for an id that is not in the sessions collection returns
\* 404 and writes neither collection: both files are as they were, and no
\* write was attempted (none can have failed).
C13_DeleteUnknown ==
    [][(Completed("delete") /\ resp'.chatId \notin DOMAIN load_chat_sessions(FS)) =>
           /\ resp'.status = 404
           /\ resp'.detail = "Chat session not found"
           /\ chat_sessions_file' = chat_sessions_file
           /\ uploaded_documents_file' = uploaded_documents_file
           /\ unreadable' = unreadable
           /\ faults' = faults
           /\ ~resp'.save_failed]_vars

\* a session that was deleted with success is deleted a second time
C13_Witness ==
    /\ resp.op = "delete" /\ resp.status = 404
    /\ \E f \in returned : f.op = "delete" /\ f.chatId = resp.chatId
    /\ unreadable = {}

\* C14 as stated: in the result of GET /api/chats, for every session with at
\* least one message, last_message_preview is the content of the session's
\* last message cut to at most 100 characters: it never exceeds 100
\* characters and equals the full content when that has at most 100.
C14_AsStated ==
    [][Completed("chats") =>
           \A k \in DOMAIN StoredSessions :
               StoredSessions[k].messages # <<>> =>
                   LET messages == StoredSessions[k].messages
                       content == messages[Len(messages)].content
                       p == resp'.response.chats[k].last_message_preview
                   IN  /\ Len(p) <= 100
                       /\ p = IF Len(content) <= 100 THEN content
                              ELSE SubSeq(content, 1, 100)]_vars

\* the positions of the messages of role "user"
C14_UserPositions(messages) == {i \in DOMAIN messages : messages[i].role = "user"}

C14_Latest(positions) == CHOOSE i \in positions : \A j \in positions : j <= i

\* C14: GET /api/chats lists every stored session; a session without
\* messages has no last_message_preview; otherwise the preview is taken from
\* the latest message of role "user": its content when that has at most 100
\* characters, else its first 100 characters followed by "..." (103
\* characters), and None when there is no such message.
C14_LastUserPreview ==
    [][Completed("chats") =>
           /\ resp'.status = 200
           /\ DOMAIN resp'.response.chats = DOMAIN StoredSessions
           /\ \A k \in DOMAIN StoredSessions :
                  LET messages == StoredSessions[k].messages
                      users == C14_UserPositions(messages)
                      chat == resp'.response.chats[k]
                  IN  /\ chat.message_count = Len(messages)
                      /\ IF messages = <<>>
                         THEN "last_message_preview" \notin DOMAIN chat
                         ELSE IF users = {}
                         THEN chat.last_message_preview = None
                         ELSE LET content == messages[C14_Latest(users)].content
                                  p == chat.last_message_preview
                              IN  IF Len(content) <= 100
                                  THEN p = content
                                  ELSE /\ Len(p) = 103
                                       /\ SubSeq(p, 1, 100) = SubSeq(content, 1, 100)
                                       /\ SubSeq(p, 101, 103) = <<".", ".", ".">>]_vars

\* a listing with a cut preview of 103 characters next to a preview that is
\* a whole user message, for sessions whose last message is the assistant's
C14_Witness ==
    /\ resp.op = "chats"
    /\ \E k1, k2 \in DOMAIN resp.response.chats :
           /\ k1 \in DOMAIN StoredSessions /\ k2 \in DOMAIN StoredSessions
           /\ "last_message_preview" \in DOMAIN resp.response.chats[k1]
           /\ "last_message_preview" \in DOMAIN resp.response.chats[k2]
           /\ Len(resp.response.chats[k1].last_message_preview) = 103
           /\ resp.response.chats[k2].last_message_preview = <<"h", "i">>
           /\ LET h == StoredSessions[k2].messages IN
              Len(h) = 2 /\ h[2].role = "assistant"

\* C15: last save wins.  Every chat request that reaches its save returns
\* success and replaces the whole sessions collection by what it loaded
\* before the model call plus its own two messages, so of two chat requests
\* on one session that both loaded before either saved, the one that saves
\* last erases the other's turn: there is such an interleaving (C15_Witness).
C15_LastSaveWins ==
    [][\A s \in Slots :
          Finished(s, "chat") =>
              LET r == inflight[s] IN
              /\ resp'.status = 200
              /\ resp'.response.chatId = r.chat_id
              /\ DOMAIN StoredSessions' = DOMAIN r.chat_sessions
              /\ \A k \in DOMAIN r.chat_sessions :
                     /\ StoredSessions'[k].documents = r.chat_sessions[k].documents
                     /\ StoredSessions'[k].messages =
                            IF k = r.chat_id
                            THEN r.chat_sessions[k].messages
                                 \o <<[role |-> "user", content |-> r.message],
                                      [role |-> "assistant",
                                       content |-> resp'.response.response]>>
                            ELSE r.chat_sessions[k].messages]_vars

\* two chat requests on one session have both returned success, and the
\* stored history holds one of the two user messages only
C15_Witness ==
    \E f1, f2 \in returned :
        /\ f1.op = "chat" /\ f2.op = "chat" /\ f1.n # f2.n
        /\ f1.chatId = f2.chatId
        /\ f1.chatId \in DOMAIN StoredSessions
        /\ LET h == StoredSessions[f1.chatId].messages IN
           Cardinality({i \in DOMAIN h : h[i].content \in ChatMessages}) = 1

\* C16: a chat request's save writes back the documents list it loaded
\* before the model call and does not touch the documents collection, so a
\* document id that an upload appended to the session in between is dropped
\* from the list while the Document stays stored: there is such an
\* interleaving (C16_Witness).
C16_ChatSaveDropsUpload ==
    [][\A s \in Slots :
          (Finished(s, "chat") /\ resp'.status = 200) =>
              LET r == inflight[s] IN
              /\ r.chat_id \in DOMAIN StoredSessions'
              /\ StoredSessions'[r.chat_id].documents =
                     r.chat_sessions[r.chat_id].documents
              /\ StoredDocuments' = StoredDocuments]_vars

\* a chat request on session s started first and returned last; in between
\* an upload to s returned success with document d; d is stored, and no
\* stored session lists it
C16_Witness ==
    \E fc, fu \in returned :
        /\ fc.op = "chat" /\ fu.op = "upload"
        /\ fc.chatId = fu.chatId
        /\ fc.n < fu.n
        /\ resp.op = "chat" /\ resp.n = fc.n /\ resp.status = 200
        /\ fc.chatId \in DOMAIN StoredSessions
        /\ fu.documentId \in DOMAIN StoredDocuments
        /\ \A k \in DOMAIN StoredSessions :
               fu.documentId \notin Range(StoredSessions[k].documents)

\* C17: a successful upload adds exactly one new record to the documents
\* collection, under a fresh id, and appends that id as the last element of
\* the documents list of exactly one session, the one whose id it returns;
\* every session's messages, every other session's documents list and every
\* Document stored before are left unchanged.
C17_UploadEffect ==
    [][\A s \in Slots :
          /\ StartedUpload(s) =>
                 LET d == inflight'[s].doc_id
                     c == inflight'[s].chat_id
                     before == IF c \in DOMAIN StoredSessions THEN StoredSessions[c]
                               ELSE [id |-> c, messages |-> <<>>, documents |-> <<>>]
                 IN  /\ d \notin Issued
                     /\ DOMAIN StoredDocuments' = DOMAIN StoredDocuments \cup {d}
                     /\ \A x \in DOMAIN StoredDocuments :
                            StoredDocuments'[x] = StoredDocuments[x]
                     /\ DOMAIN StoredSessions' = DOMAIN StoredSessions \cup {c}
                     /\ StoredSessions'[c].documents = before.documents \o <<d>>
                     /\ StoredSessions'[c].messages = before.messages
                     /\ \A k \in DOMAIN StoredSessions \ {c} :
                            StoredSessions'[k] = StoredSessions[k]
          /\ Finished(s, "upload") =>
                 /\ resp'.status = 200
                 /\ resp'.response.success
                 /\ resp'.response.documentId = inflight[s].doc_id
                 /\ resp'.response.chatId = inflight[s].chat_id
                 /\ StoredSessions' = StoredSessions
                 /\ StoredDocuments' = StoredDocuments]_vars

\* an upload to a session that listed a document already has returned
\* success: the session lists the new id last, after the earlier one, and
\* both Documents are stored
C17_Witness ==
    /\ resp.op = "upload" /\ resp.status = 200
    /\ resp.response.chatId \in DOMAIN StoredSessions
    /\ LET docs == StoredSessions[resp.response.chatId].documents IN
       /\ Len(docs) = 2
       /\ docs[2] = resp.response.documentId
       /\ docs[1] # docs[2]
       /\ docs[1] \in DOMAIN StoredDocuments /\ docs[2] \in DOMAIN StoredDocuments
    /\ StoredSessions[resp.response.chatId].messages # <<>>

\* C18: referential integrity: in every reachable state, every document id
\* listed in a stored session's documents list is the key of a record in the
\* documents collection.
C18_ReferentialIntegrity ==
    \A k \in DOMAIN StoredSessions :
        \A d \in Range(StoredSessions[k].documents) : d \in DOMAIN StoredDocuments

\* C19: deletion is permanent: once a DELETE of session id s has returned
\* success, s is absent from the sessions collection in every later state.
C19_DeletionPermanent ==
    \A f \in returned : f.op = "delete" => f.chatId \notin DOMAIN StoredSessions

\* C20: every session id returned in a successful chat or upload response is
\* in the sessions collection when the response is returned and in every
\* later state, until a DELETE request for that id succeeds.
C20_ReturnedSessionStays ==
    \A f \in returned :
        (/\ f.op \in {"chat", "upload"}
         /\ \A g \in returned : ~(g.op = "delete" /\ g.chatId = f.chatId))
        => f.chatId \in DOMAIN StoredSessions

\* no document id is listed by two stored sessions
C21_ListedOnce(sessions) ==
    \A k1, k2 \in DOMAIN sessions :
        k1 # k2 =>
            Range(sessions[k1].documents) \cap Range(sessions[k2].documents) = {}

\* C21: every document id is in the documents list of at most one stored
\* session, and a successful DELETE of session s removes s and the
\* Documents listed by s only: every other session record and every
\* Document not listed by s is left unchanged, and no remaining session
\* lists a removed Document.
C21_DeleteFrame ==
    [][/\ C21_ListedOnce(StoredSessions)
       /\ C21_ListedOnce(StoredSessions')
       /\ (Completed("delete") /\ resp'.status = 200) =>
              LET s == resp'.chatId
                  listed == Range(StoredSessions[s].documents)
              IN  /\ DOMAIN StoredSessions' = DOMAIN StoredSessions \ {s}
                  /\ \A k \in DOMAIN StoredSessions' :
                         /\ StoredSessions'[k] = StoredSessions[k]
                         /\ Range(StoredSessions'[k].documents) \cap listed = {}
                  /\ DOMAIN StoredDocuments' = DOMAIN StoredDocuments \ listed
                  /\ \A d \in DOMAIN StoredDocuments' :
                         StoredDocuments'[d] = StoredDocuments[d]]_vars

\* the stored session u1, which listed document u2, was deleted with success;
\* u2 is gone; another session and the Document it lists are still stored
C21_Witness ==
    /\ resp.op = "delete" /\ resp.status = 200
    /\ resp.chatId \notin DOMAIN StoredSessions
    /\ resp.chatId = "u1" /\ "u2" \notin DOMAIN StoredDocuments
    /\ \E k \in DOMAIN StoredSessions :
           /\ StoredSessions[k].documents # <<>>
           /\ \A d \in Range(StoredSessions[k].documents) : d \in DOMAIN StoredDocuments

C22_ReadOnly == {"history", "documents", "chats", "health", "stats"}

\* C22: the read-only operations (GET history, documents, chats, health,
\* stats) and the backup operation leave both persisted collections as they
\* were, whether they succeed or fail, and the read-only ones attempt no
\* write; a history or documents fetch for an unknown id returns 404 and
\* creates no session.
C22_ReadsAndBackupWriteNothing ==
    [][/\ (\E op \in C22_ReadOnly \cup {"backup"} : Completed(op)) =>
              /\ chat_sessions_file' = chat_sessions_file
              /\ uploaded_documents_file' = uploaded_documents_file
              /\ unreadable' = unreadable
              /\ uuids' = uuids
              /\ resp'.status \in {200, 404, 500}
       /\ (\E op \in C22_ReadOnly : Completed(op)) =>
              /\ faults' = faults
              /\ backups' = backups
       /\ ((Completed("history") \/ Completed("documents"))
           /\ resp'.chatId \notin DOMAIN load_chat_sessions(FS)) =>
              /\ resp'.status = 404
              /\ resp'.detail = "Chat session not found"
              /\ resp'.chatId \notin DOMAIN load_chat_sessions(FS')
       /\ ((Completed("history") \/ Completed("documents"))
           /\ resp'.chatId \in DOMAIN load_chat_sessions(FS)) =>
              resp'.status = 200]_vars

\* a backup failed after writing its first copy, with both collections
\* holding records and both files readable
C22_Witness ==
    /\ resp.op = "backup" /\ resp.status = 500
    /\ backups # {}
    /\ DOMAIN StoredSessions # {} /\ DOMAIN StoredDocuments # {}
    /\ unreadable = {}

====
